---------------------------- MODULE Spec2Model ----------------------------
(***************************************************************************)
(* A model of src/main.py, the single-block SHA-256 demonstration.         *)
(*                                                                         *)
(* The program keeps every word as a Python string of '0'/'1' characters   *)
(* and moves between strings and unbounded Python integers with            *)
(* int(s, 2) and format(x, '032b').  Both sides are modelled:              *)
(*   - a string is a sequence of one-character strings;                    *)
(*   - a Python int is a two's-complement value of unbounded width,        *)
(*     [ext |-> e, bits |-> <<b1, b2, ...>>], least significant bit        *)
(*     first, standing for  SUM b_k * 2^(k-1)  -  e * 2^Len(bits).         *)
(*     ext = 1 is the infinite run of sign bits of a negative int.         *)
(***************************************************************************)
EXTENDS Integers, Sequences, FiniteSets, TLC

Max(m, n) == IF m >= n THEN m ELSE n

\* The sequence with the elements of f, a function on 1..n, computed once.
Tuple(f) == SubSeq(f, 1, Len(f))

(***************************************************************************)
(* Python integers                                                         *)
(***************************************************************************)
RECURSIVE NatBits(_)
NatBits(n) == IF n = 0 THEN <<>> ELSE <<n % 2>> \o NatBits(n \div 2)

\* A machine-size non-negative integer (len(...) * 8, ord(c)) as a Python int.
FromNat(n) == [ext |-> 0, bits |-> NatBits(n)]

\* Bit k (k >= 1) of the two's-complement pattern of x.
Bit(x, k) == IF k <= Len(x.bits) THEN x.bits[k] ELSE x.ext

\* ~x
PyInvert(x) ==
    [ext |-> 1 - x.ext, bits |-> Tuple([k \in 1..Len(x.bits) |-> 1 - x.bits[k]])]

\* x & y
PyAnd(x, y) ==
    [ext |-> x.ext * y.ext,
     bits |-> Tuple([k \in 1..Max(Len(x.bits), Len(y.bits)) |-> Bit(x, k) * Bit(y, k)])]

\* x ^ y
PyXor(x, y) ==
    [ext |-> (x.ext + y.ext) % 2,
     bits |-> Tuple([k \in 1..Max(Len(x.bits), Len(y.bits)) |-> (Bit(x, k) + Bit(y, k)) % 2])]

RECURSIVE AddFrom(_, _, _, _, _)
AddFrom(x, y, k, n, c) ==
    IF k > n
    THEN <<(x.ext + y.ext + c) % 2>>
    ELSE LET s == Bit(x, k) + Bit(y, k) + c
         IN  <<s % 2>> \o AddFrom(x, y, k + 1, n, s \div 2)

\* x + y, exact (never wraps: a Python int is unbounded)
PyAdd(x, y) ==
    LET n == Max(Len(x.bits), Len(y.bits)) + 1
        r == AddFrom(x, y, 1, n, 0)
    IN  [ext |-> r[n + 1], bits |-> SubSeq(r, 1, n)]

\* -x
PyNeg(x) == PyAdd(PyInvert(x), FromNat(1))

\* x % 2 ** n  (Python's % with a positive modulus is never negative)
PyModPow2(x, n) == [ext |-> 0, bits |-> Tuple([k \in 1..n |-> Bit(x, k)])]

\* Position of the highest 1 bit of a non-negative int, 0 for the int 0.
TopBit(x) ==
    LET S == {k \in 1..Len(x.bits) : x.bits[k] = 1}
    IN  IF S = {} THEN 0 ELSE CHOOSE k \in S : \A j \in S : j <= k

(***************************************************************************)
(* Python strings and the conversions between strings and ints             *)
(***************************************************************************)
Zeros(n) == Tuple([k \in 1..n |-> "0"])

\* The binary digits of a non-negative int, most significant first, as bin()
\* and format(.., 'b') give them: no leading zeros, "0" for zero.
BinDigits(x) ==
    LET t == TopBit(x)
    IN  IF t = 0 THEN <<"0">>
        ELSE Tuple([j \in 1..t |-> IF x.bits[t + 1 - j] = 1 THEN "1" ELSE "0"])

\* format(x, '0<width>b'): zero-padded to at least width characters, never
\* truncated; a negative int gives '-' followed by the padded magnitude.
FormatB(x, width) ==
    IF x.ext = 0
    THEN LET d == BinDigits(x) IN Zeros(width - Len(d)) \o d
    ELSE LET d == BinDigits(PyNeg(x)) IN <<"-">> \o Zeros(width - 1 - Len(d)) \o d

\* int(s, 2)
IntBase2(s) ==
    LET neg  == Len(s) > 0 /\ s[1] = "-"
        body == IF neg THEN Tail(s) ELSE s
        n    == Len(body)
        mag  == [ext |-> 0,
                 bits |-> Tuple([k \in 1..n |-> IF body[n + 1 - k] = "1" THEN 1 ELSE 0])]
    IN  IF neg THEN PyNeg(mag) ELSE mag

HexChar == <<"0", "1", "2", "3", "4", "5", "6", "7", "8", "9", "a", "b", "c", "d", "e", "f">>

\* hex(x)[2:] for a non-negative int: lowercase digits, no leading zeros.
HexDigits(x) ==
    LET t == TopBit(x)
        n == (t + 3) \div 4
        nib(j) == Bit(x, 4 * (n - j) + 1) + 2 * Bit(x, 4 * (n - j) + 2)
                  + 4 * Bit(x, 4 * (n - j) + 3) + 8 * Bit(x, 4 * (n - j) + 4)
    IN  IF t = 0 THEN <<"0">> ELSE Tuple([j \in 1..n |-> HexChar[nib(j) + 1]])

\* s.zfill(width) for a string without a sign prefix
Zfill(s, width) == Zeros(width - Len(s)) \o s

\* s[lo:hi] with Python's treatment of negative and out-of-range indices
PySlice(s, lo, hi) ==
    LET n    == Len(s)
        norm(i) == IF i < 0 THEN Max(n + i, 0) ELSE IF i > n THEN n ELSE i
    IN  SubSeq(s, norm(lo) + 1, norm(hi))

(***************************************************************************)
(* The ConstantSet.  make_h_values and make_k_values evaluate               *)
(*     int((p ** (1.0 / 2.0) % 1) * 16 ** 8)   and                          *)
(*     int((p ** (1.0 / 3.0) % 1) * 16 ** 8)                                *)
(* in IEEE double arithmetic over the first 8 and the first 64 primes.      *)
(* The tables hold the integers those expressions evaluate to, each         *)
(* written as <<high 16 bits, low 16 bits>>; they are the standard         *)
(* SHA-256 initial hash values and round constants.                         *)
(***************************************************************************)
HTable ==
    <<<<27145, 58983>>, <<47975, 44677>>, <<15470, 62322>>, <<42319, 62778>>,
      <<20750, 21119>>, <<39685, 26764>>, <<8067, 55723>>, <<23520, 52505>>>>

KTable ==
    <<<<17034, 12184>>, <<28983, 17553>>, <<46528, 64463>>, <<59829, 56229>>,
      <<14678, 49755>>, <<23025, 4593>>, <<37439, 33444>>, <<43804, 24277>>,
      <<55303, 43672>>, <<4739, 23297>>, <<9265, 34238>>, <<21772, 32195>>,
      <<29374, 23924>>, <<32990, 45566>>, <<39900, 1703>>, <<49563, 61812>>,
      <<58523, 27073>>, <<61374, 18310>>, <<4033, 40390>>, <<9228, 41420>>,
      <<11753, 11375>>, <<19060, 33962>>, <<23728, 43484>>, <<30457, 35034>>,
      <<38974, 20818>>, <<43057, 50797>>, <<45059, 10184>>, <<48985, 32711>>,
      <<50912, 3059>>, <<54695, 37191>>, <<1738, 25425>>, <<5161, 10599>>,
      <<10167, 2693>>, <<11803, 8504>>, <<19756, 28156>>, <<21304, 3347>>,
      <<25866, 29524>>, <<30314, 2747>>, <<33218, 51502>>, <<37490, 11397>>,
      <<41663, 59553>>, <<43034, 26187>>, <<49739, 35696>>, <<51052, 20899>>,
      <<53650, 59417>>, <<54937, 1572>>, <<62478, 13701>>, <<4202, 41072>>,
      <<6564, 49430>>, <<7735, 27656>>, <<10056, 30540>>, <<13488, 48309>>,
      <<14620, 3251>>, <<20184, 43594>>, <<23452, 51791>>, <<26670, 28659>>,
      <<29839, 33518>>, <<30885, 25455>>, <<33992, 30740>>, <<36039, 520>>,
      <<37054, 65530>>, <<42064, 27883>>, <<48889, 41975>>, <<50801, 30962>>>>

\* The int whose high and low 16 bits are p[1] and p[2].
IntOfHalves(p) ==
    [ext |-> 0,
     bits |-> Tuple([k \in 1..32 |-> IF k <= 16 THEN (p[2] \div (2 ^ (k - 1))) % 2
                                     ELSE (p[1] \div (2 ^ (k - 17))) % 2])]

\* make_h_values(): a dict 0..7 of 32-character words
make_h_values == [j \in 0..7 |-> FormatB(IntOfHalves(HTable[j + 1]), 32)]

\* make_k_values(): a dict 0..63 of 32-character words
make_k_values == [j \in 0..63 |-> FormatB(IntOfHalves(KTable[j + 1]), 32)]

(***************************************************************************)
(* The functions of the program.  A message is a sequence of code points   *)
(* (ord(char) of each character).                                          *)
(***************************************************************************)
RECURSIVE CharBits(_)
CharBits(text) ==
    IF text = <<>> THEN <<>>
    ELSE FormatB(FromNat(Head(text)), 8) \o CharBits(Tail(text))

\* make_block with the length field counting characters instead of bits
make_block_length_in_chars(text) ==
    LET chars  == CharBits(text)
        marked == chars \o <<"1">>
        padded == marked \o Zeros(Max(448 - Len(marked), 0))
        length == Len(text)
    IN  padded \o FormatB(FromNat(length), 64)

make_block(text) ==
    LET chars  == CharBits(text)
        marked == chars \o <<"1">>
        \* for i in range(448 - len(block)): an empty range when negative
        padded == marked \o Zeros(Max(448 - Len(marked), 0))
        length == Len(text) * 8
    IN  padded \o FormatB(FromNat(length), 64)

make_word_schedule(block) ==
    [n \in 0..63 |-> IF n < 16 THEN Tuple([j \in 1..32 |-> block[n * 32 + j]])
                     ELSE Zeros(32)]

\* rotate turning the string to the left instead of to the right
rotate_left(string, bits) ==
    LET rf == PySlice(string, 0, bits)
        rs == PySlice(string, bits, Len(string))
    IN  rs \o rf

rotate(string, bits) ==
    LET rf == PySlice(string, 0, Len(string) - bits)
        rs == PySlice(string, Len(string) - bits, Len(string))
    IN  rs \o rf

\* shift keeping the bits that fall off the right-hand end (a rotation)
shift_circular(string, bits) ==
    LET end   == PySlice(string, 0, Len(string) - bits)
        start == PySlice(string, Len(string) - bits, Len(string))
    IN  start \o end

shift(string, bits) ==
    LET end   == PySlice(string, 0, Len(string) - bits)
        start == Zeros(bits)
    IN  start \o end

make_s0_value(word) ==
    FormatB(PyXor(PyXor(IntBase2(rotate(word, 7)), IntBase2(rotate(word, 18))),
                  IntBase2(shift(word, 3))), 32)

make_s1_value(word) ==
    FormatB(PyXor(PyXor(IntBase2(rotate(word, 17)), IntBase2(rotate(word, 19))),
                  IntBase2(shift(word, 10))), 32)

\* make_word without the reduction modulo 2 ** 32
make_word_no_wrap(word0, s0, word1, s1) ==
    PyAdd(PyAdd(PyAdd(IntBase2(word0), IntBase2(s0)), IntBase2(word1)), IntBase2(s1))

make_word(word0, s0, word1, s1) ==
    PyModPow2(PyAdd(PyAdd(PyAdd(IntBase2(word0), IntBase2(s0)), IntBase2(word1)),
                    IntBase2(s1)), 32)

\* One iteration of the loop of complete_word_list, at index n.
complete_word(ws, n) ==
    LET s0   == make_s0_value(ws[n - 15])
        s1   == make_s1_value(ws[n - 2])
        word == make_word(ws[n - 16], s0, ws[n - 7], s1)
    IN  [ws EXCEPT ![n] = FormatB(word, 32)]

initialise_variables(hv) == [j \in 0..7 |-> hv[j]]

\* ch with the complement applied after the AND: (e & f) ^ ~(e & g)
ch_value_complement_late(e, f, g) ==
    FormatB(PyXor(PyAnd(IntBase2(e), IntBase2(f)),
                  PyInvert(PyAnd(IntBase2(e), IntBase2(g)))), 32)

\* ch = format(int(e, 2) & int(f, 2) ^ ~int(e, 2) & int(g, 2), '032b')
\* (& binds tighter than ^; ~ is the complement of an unbounded int)
ch_value(e, f, g) ==
    FormatB(PyXor(PyAnd(IntBase2(e), IntBase2(f)),
                  PyAnd(PyInvert(IntBase2(e)), IntBase2(g))), 32)

maj_value(a, b, c) ==
    FormatB(PyXor(PyXor(PyAnd(IntBase2(a), IntBase2(b)), PyAnd(IntBase2(a), IntBase2(c))),
                  PyAnd(IntBase2(b), IntBase2(c))), 32)

big_sigma(x, r1, r2, r3) ==
    FormatB(PyXor(PyXor(IntBase2(rotate(x, r1)), IntBase2(rotate(x, r2))),
                  IntBase2(rotate(x, r3))), 32)

\* format((int(x, 2) + int(y, 2)) % 2 ** 32, '032b')
add_words(x, y) == FormatB(PyModPow2(PyAdd(IntBase2(x), IntBase2(y)), 32), 32)

\* The values one iteration of the loop of scramble computes from the
\* registers r, the round constant k and the schedule word w.
round_temps(r, k, w) ==
    LET s1    == big_sigma(r.e, 6, 11, 25)
        ch    == ch_value(r.e, r.f, r.g)
        temp1 == FormatB(PyModPow2(
                     PyAdd(PyAdd(PyAdd(PyAdd(IntBase2(r.h), IntBase2(s1)), IntBase2(ch)),
                                 IntBase2(k)), IntBase2(w)), 32), 32)
        s0    == big_sigma(r.a, 2, 13, 22)
        maj   == maj_value(r.a, r.b, r.c)
        temp2 == add_words(s0, maj)
    IN  [s1 |-> s1, ch |-> ch, temp1 |-> temp1, s0 |-> s0, maj |-> maj, temp2 |-> temp2]

\* the register assignments with d = c moved before e = d + temp1
round_registers_d_first(r, t) ==
    LET r1 == [r  EXCEPT !.h = r.g]
        r2 == [r1 EXCEPT !.g = r1.f]
        r3 == [r2 EXCEPT !.f = r2.e]
        r4 == [r3 EXCEPT !.d = r3.c]
        r5 == [r4 EXCEPT !.e = add_words(r4.d, t.temp1)]
        r6 == [r5 EXCEPT !.c = r5.b]
        r7 == [r6 EXCEPT !.b = r6.a]
    IN  [r7 EXCEPT !.a = add_words(t.temp1, t.temp2)]

\* The register assignments that end one iteration, in the order of the code.
round_registers(r, t) ==
    LET r1 == [r  EXCEPT !.h = r.g]
        r2 == [r1 EXCEPT !.g = r1.f]
        r3 == [r2 EXCEPT !.f = r2.e]
        r4 == [r3 EXCEPT !.e = add_words(r3.d, t.temp1)]
        r5 == [r4 EXCEPT !.d = r4.c]
        r6 == [r5 EXCEPT !.c = r5.b]
        r7 == [r6 EXCEPT !.b = r6.a]
    IN  [r7 EXCEPT !.a = add_words(t.temp1, t.temp2)]

\* the return of assemble_hash without .zfill(64)
hex_digest_no_zfill(hb) == HexDigits(IntBase2(hb))

\* return hex(int(hash_binary, 2))[2:].zfill(64)
hex_digest(hb) == Zfill(HexDigits(IntBase2(hb)), 64)

(***************************************************************************)
(* The messages hashed.                                                    *)
(***************************************************************************)
MsgEmpty  == <<>>
MsgAbc    == <<97, 98, 99>>
\* plain_text = '88484'
MsgMain   == <<56, 56, 52, 56, 52>>
\* code points above 127 that still fit in 8 bits, and a NUL
MsgLatin1 == <<233, 255, 128, 0>>
\* 55 characters: the longest message that fits one block
MsgLen55  == [k \in 1..55 |-> 64 + k]
\* 56 characters
MsgLen56  == [k \in 1..56 |-> 97]
\* 64 characters
MsgLen64  == [k \in 1..64 |-> 32 + k]
\* a character whose code point (U+0100) needs 9 bits
MsgWide   == <<256>>
\* U+20AC between two ASCII characters
MsgEuro   == <<97, 8364, 98>>

Messages == {MsgEmpty, MsgAbc, MsgMain, MsgLatin1, MsgLen55, MsgLen56, MsgLen64,
             MsgWide, MsgEuro}

\* How many times the pipeline runs over one ConstantSet.
MaxRuns == 2

(***************************************************************************)
(* State: the names bound in __main__ and in the function being executed.  *)
(* A name not bound yet holds Unbound.                                     *)
(***************************************************************************)
VARIABLES
    pc,           \* the statement of __main__ (or the loop) to execute next
    run,          \* which run of the pipeline this is, from 1
    plain_text,   \* the message
    new_block,    \* make_block's result
    words,        \* the word list: new_words and final_words name the same list
    i,            \* the loop index of the function being executed
    h_values,     \* the dict of initial hash values
    k_values,     \* the dict of round constants
    variables,    \* initialise_variables' result
    reg,          \* the locals a..h of scramble
    tmp,          \* the locals s1, ch, temp1, s0, maj, temp2 of scramble
    hashed_data,  \* scramble's result
    hash_binary,  \* the local hash_binary of assemble_hash
    output,       \* assemble_hash's result
    printed       \* the digests printed so far

vars == <<pc, run, plain_text, new_block, words, i, h_values, k_values, variables,
          reg, tmp, hashed_data, hash_binary, output, printed>>

Unbound == <<>>

Init ==
    /\ pc = "make_block"
    /\ run = 1
    /\ plain_text \in Messages
    /\ new_block = Unbound
    /\ words = Unbound
    /\ i = 0
    /\ h_values = Unbound
    /\ k_values = Unbound
    /\ variables = Unbound
    /\ reg = Unbound
    /\ tmp = Unbound
    /\ hashed_data = Unbound
    /\ hash_binary = Unbound
    /\ output = Unbound
    /\ printed = <<>>

\* new_block = make_block(plain_text)
MakeBlock ==
    /\ pc = "make_block"
    /\ new_block' = make_block(plain_text)
    /\ pc' = "make_word_schedule"
    /\ UNCHANGED <<run, plain_text, words, i, h_values, k_values, variables, reg, tmp,
                   hashed_data, hash_binary, output, printed>>

\* new_words = make_word_schedule(new_block)
MakeWordSchedule ==
    /\ pc = "make_word_schedule"
    /\ words' = make_word_schedule(new_block)
    /\ i' = 16
    /\ pc' = "complete_word_list"
    /\ UNCHANGED <<run, plain_text, new_block, h_values, k_values, variables, reg, tmp,
                   hashed_data, hash_binary, output, printed>>

\* complete_word_list: one iteration of  for i in range(16, 64)
CompleteWordListStep ==
    /\ pc = "complete_word_list"
    /\ i < 64
    /\ words' = complete_word(words, i)
    /\ i' = i + 1
    /\ UNCHANGED <<pc, run, plain_text, new_block, h_values, k_values, variables, reg,
                   tmp, hashed_data, hash_binary, output, printed>>

\* complete_word_list: return words.  A run that shares the ConstantSet of
\* an earlier run goes on to initialise_variables.
CompleteWordListReturn ==
    /\ pc = "complete_word_list"
    /\ i = 64
    /\ pc' = IF h_values = Unbound THEN "make_h_values" ELSE "initialise_variables"
    /\ UNCHANGED <<run, plain_text, new_block, words, i, h_values, k_values, variables,
                   reg, tmp, hashed_data, hash_binary, output, printed>>

\* h_values = make_h_values()
MakeHValues ==
    /\ pc = "make_h_values"
    /\ h_values' = make_h_values
    /\ pc' = "make_k_values"
    /\ UNCHANGED <<run, plain_text, new_block, words, i, k_values, variables, reg, tmp,
                   hashed_data, hash_binary, output, printed>>

\* k_values = make_k_values()
MakeKValues ==
    /\ pc = "make_k_values"
    /\ k_values' = make_k_values
    /\ pc' = "initialise_variables"
    /\ UNCHANGED <<run, plain_text, new_block, words, i, h_values, variables, reg, tmp,
                   hashed_data, hash_binary, output, printed>>

\* variables = initialise_variables(h_values)
InitialiseVariables ==
    /\ pc = "initialise_variables"
    /\ variables' = initialise_variables(h_values)
    /\ pc' = "scramble"
    /\ UNCHANGED <<run, plain_text, new_block, words, i, h_values, k_values, reg, tmp,
                   hashed_data, hash_binary, output, printed>>

\* scramble: a = variables[0] ... h = variables[7]
ScrambleEnter ==
    /\ pc = "scramble"
    /\ reg' = [a |-> variables[0], b |-> variables[1], c |-> variables[2],
               d |-> variables[3], e |-> variables[4], f |-> variables[5],
               g |-> variables[6], h |-> variables[7]]
    /\ i' = 0
    /\ pc' = "scramble_loop"
    /\ UNCHANGED <<run, plain_text, new_block, words, h_values, k_values, variables, tmp,
                   hashed_data, hash_binary, output, printed>>

\* scramble: one iteration of  for i in range(64)
ScrambleRound ==
    /\ pc = "scramble_loop"
    /\ i < 64
    /\ tmp' = round_temps(reg, k_values[i], words[i])
    /\ reg' = round_registers(reg, tmp')
    /\ i' = i + 1
    /\ UNCHANGED <<pc, run, plain_text, new_block, words, h_values, k_values, variables,
                   hashed_data, hash_binary, output, printed>>

\* scramble: final_values = [a, b, c, d, e, f, g, h]; return final_values
ScrambleReturn ==
    /\ pc = "scramble_loop"
    /\ i = 64
    /\ hashed_data' = [j \in 0..7 |-> <<reg.a, reg.b, reg.c, reg.d,
                                        reg.e, reg.f, reg.g, reg.h>>[j + 1]]
    /\ reg' = Unbound
    /\ tmp' = Unbound
    /\ pc' = "assemble_hash"
    /\ UNCHANGED <<run, plain_text, new_block, words, i, h_values, k_values, variables,
                   hash_binary, output, printed>>

\* output = assemble_hash(h_values, hashed_data): hash_binary = ''
AssembleHashEnter ==
    /\ pc = "assemble_hash"
    /\ hash_binary' = <<>>
    /\ i' = 0
    /\ pc' = "assemble_hash_loop"
    /\ UNCHANGED <<run, plain_text, new_block, words, h_values, k_values, variables, reg,
                   tmp, hashed_data, output, printed>>

\* assemble_hash writing each digest word back into h_values[i], as the
\* chaining step of a multi-block SHA-256 would
AssembleHashStepChaining ==
    /\ pc = "assemble_hash_loop"
    /\ i < 8
    /\ hash_binary' = hash_binary \o add_words(h_values[i], hashed_data[i])
    /\ h_values' = [h_values EXCEPT ![i] = add_words(h_values[i], hashed_data[i])]
    /\ i' = i + 1
    /\ UNCHANGED <<pc, run, plain_text, new_block, words, k_values, variables,
                   reg, tmp, hashed_data, output, printed>>

\* assemble_hash: one iteration of  for i in range(8)
AssembleHashStep ==
    /\ pc = "assemble_hash_loop"
    /\ i < 8
    /\ hash_binary' = hash_binary \o add_words(h_values[i], hashed_data[i])
    /\ i' = i + 1
    /\ UNCHANGED <<pc, run, plain_text, new_block, words, h_values, k_values, variables,
                   reg, tmp, hashed_data, output, printed>>

\* assemble_hash: return hex(int(hash_binary, 2))[2:].zfill(64);
\* print('Our output:', output)
AssembleHashReturn ==
    /\ pc = "assemble_hash_loop"
    /\ i = 8
    /\ output' = hex_digest(hash_binary)
    /\ printed' = Append(printed, output')
    /\ hash_binary' = Unbound
    /\ pc' = "done"
    /\ UNCHANGED <<run, plain_text, new_block, words, i, h_values, k_values, variables,
                   reg, tmp, hashed_data>>

\* The same message hashed again with the ConstantSet already derived:
\* lines 254-256 and 259-261 run again, h_values and k_values are kept.
HashAgain ==
    /\ pc = "done"
    /\ run < MaxRuns
    /\ run' = run + 1
    /\ pc' = "make_block"
    /\ new_block' = Unbound
    /\ words' = Unbound
    /\ variables' = Unbound
    /\ hashed_data' = Unbound
    /\ output' = Unbound
    /\ UNCHANGED <<plain_text, i, h_values, k_values, reg, tmp, hash_binary, printed>>

Next ==
    \/ MakeBlock
    \/ MakeWordSchedule
    \/ CompleteWordListStep
    \/ CompleteWordListReturn
    \/ MakeHValues
    \/ MakeKValues
    \/ InitialiseVariables
    \/ ScrambleEnter
    \/ ScrambleRound
    \/ ScrambleReturn
    \/ AssembleHashEnter
    \/ AssembleHashStep
    \/ AssembleHashReturn
    \/ HashAgain

Spec == Init /\ [][Next]_vars

(***************************************************************************)
(* A run of the pure function assemble_hash on chosen inputs: h_values and *)
(* hashed_data are drawn word by word from WordSamples in positions 0 and  *)
(* 1 and are fixed words elsewhere, so that sums wrap and digests start    *)
(* with one or several zero words.                                         *)
(***************************************************************************)
WordSamples ==
    {FormatB(IntOfHalves(p), 32) : p \in {<<0, 0>>, <<0, 1>>, <<32768, 0>>, <<65535, 65535>>}}

InitAsm ==
    /\ pc = "assemble_hash"
    /\ run = 1
    /\ plain_text = <<>>
    /\ new_block = Unbound
    /\ words = Unbound
    /\ i = 0
    /\ \E x \in WordSamples, y \in WordSamples :
           h_values = [j \in 0..7 |-> IF j = 0 THEN x ELSE IF j = 1 THEN y
                                      ELSE make_h_values[j]]
    /\ k_values = make_k_values
    /\ variables = Unbound
    /\ reg = Unbound
    /\ tmp = Unbound
    /\ \E x \in WordSamples, y \in WordSamples :
           hashed_data = [j \in 0..7 |-> IF j = 0 THEN x ELSE IF j = 1 THEN y
                                         ELSE make_k_values[j]]
    /\ hash_binary = Unbound
    /\ output = Unbound
    /\ printed = <<>>

NextAsm ==
    \/ AssembleHashEnter
    \/ AssembleHashStep
    \/ AssembleHashReturn

SpecAsm == InitAsm /\ [][NextAsm]_vars

(***************************************************************************)
(* Words as the specification defines them: 32-bit unsigned values.  A     *)
(* word is read as a number (two 16-bit halves), added modulo 2^32 by      *)
(* integer arithmetic, and rotated, shifted and combined bit position by   *)
(* bit position.  Position 1 is the most significant bit.                  *)
(***************************************************************************)
IsWord(w) == Len(w) = 32 /\ \A k \in 1..32 : w[k] \in {"0", "1"}

Bv(w, k) == IF w[k] = "1" THEN 1 ELSE 0

RECURSIVE BitsVal(_, _, _)
BitsVal(w, from, to) ==
    IF from > to THEN 0 ELSE Bv(w, from) * 2 ^ (to - from) + BitsVal(w, from + 1, to)

WordHi(w) == BitsVal(w, 1, 16)
WordLo(w) == BitsVal(w, 17, 32)

WordOfHalves(hi, lo) ==
    Tuple([k \in 1..32 |->
              IF (IF k <= 16 THEN hi \div 2 ^ (16 - k) ELSE lo \div 2 ^ (32 - k)) % 2 = 1
              THEN "1" ELSE "0"])

\* (x + y) mod 2^32
AddMod32(x, y) ==
    LET lo == WordLo(x) + WordLo(y)
        hi == WordHi(x) + WordHi(y) + lo \div 65536
    IN  WordOfHalves(hi % 65536, lo % 65536)

Rotr(w, n) == Tuple([k \in 1..32 |-> w[((k - 1 - n) % 32) + 1]])
Shr(w, n)  == Tuple([k \in 1..32 |-> IF k <= n THEN "0" ELSE w[k - n]])
Xor32(x, y) == Tuple([k \in 1..32 |-> IF x[k] = y[k] THEN "0" ELSE "1"])
And32(x, y) == Tuple([k \in 1..32 |-> IF x[k] = "1" /\ y[k] = "1" THEN "1" ELSE "0"])
AllOnes == Tuple([k \in 1..32 |-> "1"])
\* NOT as a 32-bit complement: x xor 0xFFFFFFFF
Not32(x) == Xor32(x, AllOnes)

SmallSigma0(w) == Xor32(Xor32(Rotr(w, 7), Rotr(w, 18)), Shr(w, 3))
SmallSigma1(w) == Xor32(Xor32(Rotr(w, 17), Rotr(w, 19)), Shr(w, 10))
Ch32(e, f, g) == Xor32(And32(e, f), And32(Not32(e), g))
Maj32(a, b, c) == Xor32(Xor32(And32(a, b), And32(a, c)), And32(b, c))

\* The registers after one round, as section 4.5 of the specification states it.
RoundOf(r, k, w) ==
    LET S1    == Xor32(Xor32(Rotr(r.e, 6), Rotr(r.e, 11)), Rotr(r.e, 25))
        ch    == Ch32(r.e, r.f, r.g)
        temp1 == AddMod32(AddMod32(AddMod32(AddMod32(r.h, S1), ch), k), w)
        S0    == Xor32(Xor32(Rotr(r.a, 2), Rotr(r.a, 13)), Rotr(r.a, 22))
        maj   == Maj32(r.a, r.b, r.c)
        temp2 == AddMod32(S0, maj)
    IN  [a |-> AddMod32(temp1, temp2), b |-> r.a, c |-> r.b, d |-> r.c,
         e |-> AddMod32(r.d, temp1), f |-> r.e, g |-> r.f, h |-> r.g]

SingleByte(text) == \A k \in 1..Len(text) : text[k] \in 0..255

LowerHex == <<"0", "1", "2", "3", "4", "5", "6", "7", "8", "9", "a", "b", "c", "d", "e", "f">>

(***************************************************************************)
(* Reference SHA-256 digests (hashlib.sha256) of the messages of at most    *)
(* 55 single-byte characters, over the bytes equal to the code points.      *)
(***************************************************************************)
\* b''
DigestEmpty ==
    <<"e", "3", "b", "0", "c", "4", "4", "2", "9", "8", "f", "c", "1", "c", "1", "4",
      "9", "a", "f", "b", "f", "4", "c", "8", "9", "9", "6", "f", "b", "9", "2", "4",
      "2", "7", "a", "e", "4", "1", "e", "4", "6", "4", "9", "b", "9", "3", "4", "c",
      "a", "4", "9", "5", "9", "9", "1", "b", "7", "8", "5", "2", "b", "8", "5", "5">>

\* b'abc'
DigestAbc ==
    <<"b", "a", "7", "8", "1", "6", "b", "f", "8", "f", "0", "1", "c", "f", "e", "a",
      "4", "1", "4", "1", "4", "0", "d", "e", "5", "d", "a", "e", "2", "2", "2", "3",
      "b", "0", "0", "3", "6", "1", "a", "3", "9", "6", "1", "7", "7", "a", "9", "c",
      "b", "4", "1", "0", "f", "f", "6", "1", "f", "2", "0", "0", "1", "5", "a", "d">>

\* b'88484'
DigestMain ==
    <<"0", "0", "0", "0", "a", "4", "5", "6", "e", "7", "b", "5", "a", "5", "e", "b",
      "0", "5", "9", "e", "7", "2", "1", "f", "b", "4", "3", "1", "4", "3", "6", "8",
      "8", "3", "1", "4", "3", "1", "0", "1", "2", "7", "5", "c", "4", "0", "7", "7",
      "f", "8", "3", "f", "e", "7", "0", "2", "9", "8", "f", "5", "6", "2", "3", "d">>

\* b'\xe9\xff\x80\x00'
DigestLatin1 ==
    <<"5", "1", "c", "0", "2", "9", "b", "d", "1", "2", "4", "e", "6", "3", "0", "0",
      "d", "c", "8", "1", "0", "5", "f", "c", "4", "3", "1", "9", "8", "d", "9", "9",
      "a", "7", "8", "2", "7", "f", "4", "0", "8", "3", "8", "0", "3", "a", "a", "1",
      "5", "9", "a", "d", "1", "e", "f", "a", "9", "2", "6", "c", "a", "6", "3", "b">>

\* b'ABCDEFGHIJKLMNOPQRSTUVWXYZ[\\]^_`abcdefghijklmnopqrstuvw'
DigestLen55 ==
    <<"f", "6", "0", "8", "f", "0", "c", "5", "2", "f", "f", "0", "6", "4", "e", "5",
      "8", "6", "2", "8", "4", "4", "9", "6", "b", "b", "b", "5", "a", "3", "4", "5",
      "9", "3", "9", "f", "2", "6", "9", "e", "1", "9", "f", "6", "2", "5", "1", "f",
      "c", "e", "2", "d", "5", "e", "5", "7", "6", "d", "0", "8", "e", "c", "1", "4">>

ReferenceDigest(text) ==
    CASE text = MsgEmpty  -> DigestEmpty
      [] text = MsgAbc    -> DigestAbc
      [] text = MsgMain   -> DigestMain
      [] text = MsgLatin1 -> DigestLatin1
      [] text = MsgLen55  -> DigestLen55

(***************************************************************************)
(* Properties                                                              *)
(***************************************************************************)

\* C1: for every message of at most 55 single-byte characters the pipeline
\* returns the digest a reference SHA-256 gives for the same bytes; "abc"
\* gives ba7816bf...f20015ad.
C1_DigestMatchesReference ==
    (pc = "done" /\ Len(plain_text) <= 55 /\ SingleByte(plain_text))
        => /\ output = ReferenceDigest(plain_text)
           /\ plain_text = MsgAbc => output = DigestAbc

C1_Witness == pc = "done" /\ plain_text = MsgAbc /\ output = DigestAbc

\* C2: a message of exactly 55 bytes is hashed, and a message of 56 bytes or
\* more fails inside make_block: no block is produced for it (of any
\* length) and no digest is returned.
C2_TooLongRejected ==
    /\ (Len(plain_text) = 55 /\ pc = "done") => Len(output) = 64
    /\ Len(plain_text) >= 56 =>
           /\ new_block = Unbound
           /\ output = Unbound
           /\ printed = <<>>

\* C3: for a message of n <= 55 single-byte characters make_block returns
\* exactly 512 bits: the 8n message bits (each character's 8-bit code point,
\* in order), a single 1 bit, 447 - 8n zero bits, and 8n as a 64-bit
\* big-endian field.
C3_BlockLayout ==
    (new_block # Unbound /\ Len(plain_text) <= 55 /\ SingleByte(plain_text))
        => LET n == Len(plain_text)
           IN  /\ Len(new_block) = 512
               /\ \A k \in 1..(8 * n) :
                      Bv(new_block, k)
                          = (plain_text[((k - 1) \div 8) + 1] \div 2 ^ (7 - ((k - 1) % 8))) % 2
               /\ new_block[8 * n + 1] = "1"
               /\ \A k \in (8 * n + 2)..448 : new_block[k] = "0"
               /\ \A k \in 449..512 :
                      Bv(new_block, k)
                          = IF 512 - k > 30 THEN 0 ELSE ((8 * n) \div 2 ^ (512 - k)) % 2

C3_Witness ==
    /\ new_block # Unbound
    /\ Len(plain_text) = 55
    /\ SingleByte(plain_text)
    /\ new_block[441] = "1"

\* The number of bits before the terminator: the last 1 bit of the first
\* 448 bits of a block ends the message.
BitsBeforeTerminator(block) ==
    LET S == {k \in 1..448 : block[k] = "1"}
    IN  (CHOOSE k \in S : \A j \in S : j <= k) - 1

\* C4: a message with a character whose code point does not fit in 8 bits
\* is rejected before block construction; in every block make_block
\* returns the 64-bit length field equals the number of bits that precede
\* the terminator bit.
C4_InvalidCharacterRejected ==
    /\ ~SingleByte(plain_text) => new_block = Unbound
    /\ (new_block # Unbound /\ Len(plain_text) <= 55) =>
           /\ \A k \in 449..481 : new_block[k] = "0"
           /\ BitsVal(new_block, 482, 512) = BitsBeforeTerminator(new_block)

\* C5: assemble_hash returns exactly 64 lowercase hexadecimal characters,
\* the most-significant-first concatenation of the 8 words
\* (H[i] + final_register[i]) mod 2^32, leading zero digits kept.
C5_DigestAssembly ==
    pc = "done"
        => /\ Len(output) = 64
           /\ \A j \in 0..7 :
                  LET lo == WordLo(h_values[j]) + WordLo(hashed_data[j])
                      hi == WordHi(h_values[j]) + WordHi(hashed_data[j]) + lo \div 65536
                  IN  \A d \in 1..8 :
                          output[8 * j + d]
                              = LowerHex[((IF d <= 4 THEN (hi % 65536) \div 16 ^ (4 - d)
                                           ELSE (lo % 65536) \div 16 ^ (8 - d)) % 16) + 1]

\* Both leading words are zero, the first by wrapping 0xFFFFFFFF + 1.
C5_Witness ==
    /\ pc = "done"
    /\ h_values[0] = AllOnes
    /\ WordHi(hashed_data[0]) = 0 /\ WordLo(hashed_data[0]) = 1
    /\ AddMod32(h_values[1], hashed_data[1]) = WordOfHalves(0, 0)
    /\ \A k \in 1..16 : output[k] = "0"
    /\ output[17] # "0"

\* C6: once derived, the 8 H words and the 64 K words are never changed by
\* any step; the H values that assemble_hash adds are the ones that
\* initialised the registers; and the digests of the same message hashed
\* twice over one ConstantSet are equal.
C6_ConstantSetImmutable ==
    [][ /\ h_values # Unbound => h_values' = h_values
        /\ k_values # Unbound => k_values' = k_values
        /\ pc' = "assemble_hash_loop" => \A j \in 0..7 : h_values'[j] = variables'[j]
        /\ \A m, n \in 1..Len(printed') : printed'[m] = printed'[n] ]_vars

C6_Witness ==
    /\ pc = "done"
    /\ run = 2
    /\ Len(printed) = 2
    /\ h_values = make_h_values
    /\ k_values = make_k_values

\* words[n] as section 4.4 of the specification derives it from earlier words
ScheduleWord(ws, n) ==
    AddMod32(AddMod32(AddMod32(ws[n - 16], SmallSigma0(ws[n - 15])), ws[n - 7]),
             SmallSigma1(ws[n - 2]))

\* C7: the schedule has exactly 64 words; words 0..15 are the 32-bit slices
\* of the block in block order and the expansion leaves them unchanged;
\* every step i of the expansion writes only words[i], and in the schedule
\* complete_word_list returns every word i in 16..63 is
\* (words[i-16] + s0(words[i-15]) + words[i-7] + s1(words[i-2])) mod 2^32.
C7_Schedule ==
    [][ /\ pc = "make_word_schedule" =>
               /\ DOMAIN words' = 0..63
               /\ \A n \in 0..15 : \A j \in 1..32 : words'[n][j] = new_block[32 * n + j]
        /\ (pc = "complete_word_list" /\ i < 64) =>
               words' = [words EXCEPT ![i] = ScheduleWord(words, i)]
        /\ (pc = "complete_word_list" /\ i = 64) =>
               /\ DOMAIN words = 0..63
               /\ \A n \in 0..15 : \A j \in 1..32 : words[n][j] = new_block[32 * n + j]
               /\ \A n \in 16..63 : words[n] = ScheduleWord(words, n) ]_vars

C7_Witness ==
    /\ pc = "complete_word_list"
    /\ i = 64
    /\ plain_text = MsgAbc
    /\ words[63] # Zeros(32)

\* C8: scramble starts with a..h = H0..H7, runs rounds i = 0, 1, ..., 63 in
\* that order, each round reading K[i] and W[i] and replacing the registers
\* by the round function of the registers at the start of the round, and
\* returns the registers after round 63.
C8_Rounds ==
    [][ /\ pc = "scramble" =>
               /\ pc' = "scramble_loop" /\ i' = 0
               /\ reg' = [a |-> h_values[0], b |-> h_values[1], c |-> h_values[2],
                          d |-> h_values[3], e |-> h_values[4], f |-> h_values[5],
                          g |-> h_values[6], h |-> h_values[7]]
        /\ (pc = "scramble_loop" /\ pc' = "scramble_loop") =>
               /\ i \in 0..63 /\ i' = i + 1
               /\ reg' = RoundOf(reg, k_values[i], words[i])
        /\ (pc = "scramble_loop" /\ pc' # "scramble_loop") =>
               /\ i = 64
               /\ hashed_data' = [j \in 0..7 |-> <<reg.a, reg.b, reg.c, reg.d,
                                                   reg.e, reg.f, reg.g, reg.h>>[j + 1]] ]_vars

C8_Witness ==
    /\ pc = "assemble_hash"
    /\ i = 64
    /\ hashed_data # Unbound
    /\ hashed_data # variables

\* C9: in every round ch = (e AND f) xor ((e xor 0xFFFFFFFF) AND g) for the
\* registers e, f, g at the start of the round, and ch is in 0..2^32-1.
C9_ChComplement ==
    [][ (pc = "scramble_loop" /\ i < 64) =>
            /\ IsWord(tmp'.ch)
            /\ tmp'.ch = Ch32(reg.e, reg.f, reg.g) ]_vars

\* After a round in which e had its top bit set and (NOT e) AND g was not 0.
C9_Witness ==
    /\ pc = "scramble_loop"
    /\ i > 0
    /\ reg.f[1] = "1"
    /\ And32(Not32(reg.f), reg.h) # WordOfHalves(0, 0)
    /\ tmp.ch = Ch32(reg.f, reg.g, reg.h)

WordsOf(f) == \A j \in DOMAIN f : IsWord(f[j])

\* C10: every Word-valued quantity is exactly 32 characters of 0/1 (a value
\* in 0..2^32-1) at every stage: the schedule words, the per-round values,
\* the registers, the constants and the digest words.
C10_WordWidth ==
    /\ WordsOf(words)
    /\ WordsOf(h_values)
    /\ WordsOf(k_values)
    /\ WordsOf(variables)
    /\ WordsOf(reg)
    /\ WordsOf(tmp)
    /\ WordsOf(hashed_data)
    /\ pc = "assemble_hash_loop" =>
           /\ Len(hash_binary) = 32 * i
           /\ \A k \in 1..Len(hash_binary) : hash_binary[k] \in {"0", "1"}

C10_Witness ==
    /\ pc = "assemble_hash_loop"
    /\ i = 8
    /\ Len(hash_binary) = 256
    /\ WordsOf(words) /\ DOMAIN words = 0..63

=============================================================================
